---------------------------- MODULE Spec2Model ----------------------------
(***************************************************************************)
(* Model of the text-analysis backend: the rule-based grammar corrector of *)
(* src/simple_text_analysis.py (class EnhancedGrammarChecker and its       *)
(* /analyze-text endpoint) and of src/text_analysis.py (function           *)
(* analyze_grammar_and_words and its /analyze-text endpoint).              *)
(*                                                                         *)
(* A text is a sequence of characters, each character a one-character      *)
(* string.  Python's str and re operations are modelled by what they do on *)
(* such sequences: strip, split, upper, lower, title, isupper, istitle,    *)
(* endswith, replace, the substring test, slicing, and re.search / re.sub  *)
(* of a \b-delimited, escaped literal.                                     *)
(***************************************************************************)
EXTENDS Integers, Sequences, FiniteSets, TLC

(***************************************************************************)
(* Characters                                                              *)
(***************************************************************************)
LowerLetters ==
  << "a","b","c","d","e","f","g","h","i","j","k","l","m",
     "n","o","p","q","r","s","t","u","v","w","x","y","z" >>

UpperLetters ==
  << "A","B","C","D","E","F","G","H","I","J","K","L","M",
     "N","O","P","Q","R","S","T","U","V","W","X","Y","Z" >>

LowerSet == { LowerLetters[i] : i \in 1..Len(LowerLetters) }

UpperSet == { UpperLetters[i] : i \in 1..Len(UpperLetters) }

\* The characters that occur in the modelled texts: ASCII letters, the
\* space, the three terminal marks and the apostrophe.
Chars == LowerSet \cup UpperSet \cup {" ", ".", "!", "?", "'"}

\* str.lower() / str.upper() on one character.
lowerOf ==
  [ c \in Chars |->
      IF c \in UpperSet
      THEN LowerLetters[CHOOSE i \in 1..Len(UpperLetters) : UpperLetters[i] = c]
      ELSE c ]

upperOf ==
  [ c \in Chars |->
      IF c \in LowerSet
      THEN UpperLetters[CHOOSE i \in 1..Len(LowerLetters) : LowerLetters[i] = c]
      ELSE c ]

\* A cased character (str.isupper / islower / istitle look only at these).
IsCased(c) == c \in LowerSet \/ c \in UpperSet

\* A regular-expression word character, \w.
IsWordChar(c) == c \in LowerSet \/ c \in UpperSet

\* str.isspace() on one character.
IsSpace(c) == c = " "

(***************************************************************************)
(* Python str operations                                                   *)
(***************************************************************************)
\* s.lower()
lower(s) == [ i \in 1..Len(s) |-> lowerOf[s[i]] ]

\* s.upper()
upper(s) == [ i \in 1..Len(s) |-> upperOf[s[i]] ]

\* s.title(): a cased character is uppercased when the character before it
\* is uncased (or there is none) and lowercased otherwise.
title(s) ==
  [ i \in 1..Len(s) |->
      IF i > 1 /\ IsCased(s[i-1]) THEN lowerOf[s[i]] ELSE upperOf[s[i]] ]

\* s.isupper(): no lowercase character and at least one cased character.
isupper(s) ==
  /\ \A i \in 1..Len(s) : s[i] \notin LowerSet
  /\ \E i \in 1..Len(s) : IsCased(s[i])

\* s.istitle(): uppercase characters only after uncased ones, lowercase
\* characters only after cased ones, and at least one cased character.
istitle(s) ==
  /\ \A i \in 1..Len(s) :
       LET prevCased == i > 1 /\ IsCased(s[i-1])
       IN  /\ s[i] \in UpperSet => ~prevCased
           /\ s[i] \in LowerSet => prevCased
  /\ \E i \in 1..Len(s) : IsCased(s[i])

\* s.strip(): leading and trailing whitespace removed.
strip(s) ==
  LET keep == { i \in 1..Len(s) : ~IsSpace(s[i]) }
  IN  IF keep = {} THEN << >>
      ELSE LET lo == CHOOSE i \in keep : \A j \in keep : i <= j
               hi == CHOOSE i \in keep : \A j \in keep : j <= i
           IN  SubSeq(s, lo, hi)

\* len(s.split()): the number of whitespace-delimited tokens.
split_len(s) ==
  Cardinality({ i \in 1..Len(s) :
                  ~IsSpace(s[i]) /\ (i = 1 \/ IsSpace(s[i-1])) })

\* s.endswith(('.', '!', '?'))
endswith_mark(s) == Len(s) > 0 /\ s[Len(s)] \in {".", "!", "?"}

\* s[0].upper() + s[1:], guarded by `if s` as at both places of use.
capitalize_first(s) ==
  IF Len(s) > 0 THEN << upperOf[s[1]] >> \o SubSeq(s, 2, Len(s)) ELSE s

\* s[offset:offset+length] for offset >= 0 and length >= 0: Python clamps
\* the slice to the string.
slice(s, offset, length) ==
  LET lo == IF offset > Len(s) THEN Len(s) ELSE offset
      hi == IF offset + length > Len(s) THEN Len(s) ELSE offset + length
  IN  SubSeq(s, lo + 1, hi)

\* The least element of a non-empty set of integers.
Min(S) == CHOOSE x \in S : \A y \in S : x <= y

\* s.find(sub, start): the first 1-based position >= from where sub occurs
\* in s, or 0.  The empty string occurs at every position, Len(s)+1 included.
find(s, sub, from) ==
  LET hits == { i \in from..(Len(s) - Len(sub) + 1) :
                  \A k \in 1..Len(sub) : s[i + k - 1] = sub[k] }
  IN  IF hits = {} THEN 0 ELSE Min(hits)

\* sub in s
contains(s, sub) == find(s, sub, 1) # 0

\* s.replace(old, new, 1): the first occurrence only.
replace_first(s, old, new) ==
  LET i == find(s, old, 1)
  IN  IF i = 0 THEN s
      ELSE SubSeq(s, 1, i - 1) \o new \o SubSeq(s, i + Len(old), Len(s))

\* s.replace(old, new): every non-overlapping occurrence, left to right.  For
\* old = "" Python inserts new before every character and at the end.
RECURSIVE replace_from(_, _, _, _)
replace_from(s, old, new, from) ==
  IF Len(old) = 0
  THEN IF from > Len(s) THEN new
       ELSE new \o << s[from] >> \o replace_from(s, old, new, from + 1)
  ELSE LET i == find(s, old, from)
       IN  IF i = 0 THEN SubSeq(s, from, Len(s))
           ELSE SubSeq(s, from, i - 1) \o new
                  \o replace_from(s, old, new, i + Len(old))

replace_all(s, old, new) == replace_from(s, old, new, 1)

(***************************************************************************)
(* Regular expressions of the shape \b<literal>\b                          *)
(***************************************************************************)
\* \b at the gap before 1-based position p (p in 1..Len(s)+1): exactly one of
\* the two neighbours is a word character.
word_boundary(s, p) ==
  LET before == p > 1 /\ IsWordChar(s[p-1])
      after  == p <= Len(s) /\ IsWordChar(s[p])
  IN  before # after

\* Whether \b<word>\b matches s at position i; ignorecase is re.IGNORECASE.
match_at(s, word, i, ignorecase) ==
  /\ i >= 1
  /\ i + Len(word) - 1 <= Len(s)
  /\ \A k \in 1..Len(word) :
       IF ignorecase THEN lowerOf[s[i + k - 1]] = lowerOf[word[k]]
       ELSE s[i + k - 1] = word[k]
  /\ word_boundary(s, i)
  /\ word_boundary(s, i + Len(word))

\* re.search: the position of the leftmost match at or after from, or 0.
re_search(s, word, from, ignorecase) ==
  LET hits == { i \in from..(Len(s) - Len(word) + 1) :
                  match_at(s, word, i, ignorecase) }
  IN  IF hits = {} THEN 0 ELSE Min(hits)

\* EnhancedGrammarChecker.common_errors, in declaration order.
common_errors ==
  << [wrong |-> <<"i"," ","i","s">>, right |-> <<"I"," ","a","m">>],  \* "i is": "I am"
     [wrong |-> <<"i"," ","a","r","e">>, right |-> <<"I"," ","a","m">>],  \* "i are": "I am"
     [wrong |-> <<"h","e"," ","a","r","e">>, right |-> <<"h","e"," ","i","s">>],  \* "he are": "he is"
     [wrong |-> <<"s","h","e"," ","a","r","e">>, right |-> <<"s","h","e"," ","i","s">>],  \* "she are": "she is"
     [wrong |-> <<"i","t"," ","a","r","e">>, right |-> <<"i","t"," ","i","s">>],  \* "it are": "it is"
     [wrong |-> <<"w","e"," ","i","s">>, right |-> <<"w","e"," ","a","r","e">>],  \* "we is": "we are"
     [wrong |-> <<"t","h","e","y"," ","i","s">>, right |-> <<"t","h","e","y"," ","a","r","e">>],  \* "they is": "they are"
     [wrong |-> <<"y","o","u"," ","i","s">>, right |-> <<"y","o","u"," ","a","r","e">>],  \* "you is": "you are"
     [wrong |-> <<"s","t","o","r","e">>, right |-> <<"l","i","v","e">>],  \* "store": "live"
     [wrong |-> <<"b","u","y","e","d">>, right |-> <<"b","o","u","g","h","t">>],  \* "buyed": "bought"
     [wrong |-> <<"g","o","e","d">>, right |-> <<"w","e","n","t">>],  \* "goed": "went"
     [wrong |-> <<"e","a","t","e","d">>, right |-> <<"a","t","e">>],  \* "eated": "ate"
     [wrong |-> <<"r","u","n","n","e","d">>, right |-> <<"r","a","n">>],  \* "runned": "ran"
     [wrong |-> <<"s","p","e","a","k","e","d">>, right |-> <<"s","p","o","k","e">>],  \* "speaked": "spoke"
     [wrong |-> <<"t","e","a","c","h","e","d">>, right |-> <<"t","a","u","g","h","t">>],  \* "teached": "taught"
     [wrong |-> <<"c","a","t","c","h","e","d">>, right |-> <<"c","a","u","g","h","t">>],  \* "catched": "caught"
     [wrong |-> <<"b","r","i","n","g","e","d">>, right |-> <<"b","r","o","u","g","h","t">>],  \* "bringed": "brought"
     [wrong |-> <<"t","h","i","n","k","e","d">>, right |-> <<"t","h","o","u","g","h","t">>],  \* "thinked": "thought"
     [wrong |-> <<"i","n"," ","h","o","m","e">>, right |-> <<"a","t"," ","h","o","m","e">>],  \* "in home": "at home"
     [wrong |-> <<"o","n"," ","h","o","m","e">>, right |-> <<"a","t"," ","h","o","m","e">>],  \* "on home": "at home"
     [wrong |-> <<"o","n"," ","j","a","p","a","n">>, right |-> <<"i","n"," ","J","a","p","a","n">>],  \* "on japan": "in Japan"
     [wrong |-> <<"a","t"," ","j","a","p","a","n">>, right |-> <<"i","n"," ","J","a","p","a","n">>],  \* "at japan": "in Japan"
     [wrong |-> <<"i","n"," ","s","c","h","o","o","l">>, right |-> <<"a","t"," ","s","c","h","o","o","l">>],  \* "in school": "at school"
     [wrong |-> <<"o","n"," ","s","c","h","o","o","l">>, right |-> <<"a","t"," ","s","c","h","o","o","l">>],  \* "on school": "at school"
     [wrong |-> <<"a"," ","a","p","p","l","e">>, right |-> <<"a","n"," ","a","p","p","l","e">>],  \* "a apple": "an apple"
     [wrong |-> <<"a"," ","h","o","u","r">>, right |-> <<"a","n"," ","h","o","u","r">>],  \* "a hour": "an hour"
     [wrong |-> <<"a","n"," ","b","o","o","k">>, right |-> <<"a"," ","b","o","o","k">>],  \* "an book": "a book"
     [wrong |-> <<"a","n"," ","u","n","i","v","e","r","s","i","t","y">>, right |-> <<"a"," ","u","n","i","v","e","r","s","i","t","y">>],  \* "an university": "a university"
     [wrong |-> <<"a"," ","e","u","r","o","p","e","a","n">>, right |-> <<"a"," ","E","u","r","o","p","e","a","n">>],  \* "a european": "a European"
     [wrong |-> <<"i"," ","n","a","m","e">>, right |-> <<"M","y"," ","n","a","m","e">>],  \* "i name": "My name"
     [wrong |-> <<"m","e"," ","n","a","m","e">>, right |-> <<"M","y"," ","n","a","m","e">>],  \* "me name": "My name"
     [wrong |-> <<"y","o","u","r"," ","n","a","m","e">>, right |-> <<"y","o","u","r"," ","n","a","m","e">>],  \* "your name": "your name"
     [wrong |-> <<"h","i","s"," ","n","a","m","e">>, right |-> <<"h","i","s"," ","n","a","m","e">>],  \* "his name": "his name"
     [wrong |-> <<"h","e","r"," ","n","a","m","e">>, right |-> <<"h","e","r"," ","n","a","m","e">>],  \* "her name": "her name"
     [wrong |-> <<"o","u","r"," ","n","a","m","e">>, right |-> <<"o","u","r"," ","n","a","m","e">>],  \* "our name": "our name"
     [wrong |-> <<"t","h","e","i","r"," ","n","a","m","e">>, right |-> <<"t","h","e","i","r"," ","n","a","m","e">>],  \* "their name": "their name"
     [wrong |-> <<"s","h","o","u","l","d"," ","o","f">>, right |-> <<"s","h","o","u","l","d"," ","h","a","v","e">>],  \* "should of": "should have"
     [wrong |-> <<"c","o","u","l","d"," ","o","f">>, right |-> <<"c","o","u","l","d"," ","h","a","v","e">>],  \* "could of": "could have"
     [wrong |-> <<"w","o","u","l","d"," ","o","f">>, right |-> <<"w","o","u","l","d"," ","h","a","v","e">>],  \* "would of": "would have"
     [wrong |-> <<"m","u","s","t"," ","o","f">>, right |-> <<"m","u","s","t"," ","h","a","v","e">>] >>  \* "must of": "must have"

\* EnhancedGrammarChecker.contractions, in declaration order.
contractions ==
  << [wrong |-> <<"i"," ","a","m">>, right |-> <<"I","'","m">>],  \* "i am": "I'm"
     [wrong |-> <<"y","o","u"," ","a","r","e">>, right |-> <<"y","o","u","'","r","e">>],  \* "you are": "you're"
     [wrong |-> <<"h","e"," ","i","s">>, right |-> <<"h","e","'","s">>],  \* "he is": "he's"
     [wrong |-> <<"s","h","e"," ","i","s">>, right |-> <<"s","h","e","'","s">>],  \* "she is": "she's"
     [wrong |-> <<"i","t"," ","i","s">>, right |-> <<"i","t","'","s">>],  \* "it is": "it's"
     [wrong |-> <<"w","e"," ","a","r","e">>, right |-> <<"w","e","'","r","e">>],  \* "we are": "we're"
     [wrong |-> <<"t","h","e","y"," ","a","r","e">>, right |-> <<"t","h","e","y","'","r","e">>],  \* "they are": "they're"
     [wrong |-> <<"i","s"," ","n","o","t">>, right |-> <<"i","s","n","'","t">>],  \* "is not": "isn't"
     [wrong |-> <<"a","r","e"," ","n","o","t">>, right |-> <<"a","r","e","n","'","t">>],  \* "are not": "aren't"
     [wrong |-> <<"d","o"," ","n","o","t">>, right |-> <<"d","o","n","'","t">>],  \* "do not": "don't"
     [wrong |-> <<"d","o","e","s"," ","n","o","t">>, right |-> <<"d","o","e","s","n","'","t">>],  \* "does not": "doesn't"
     [wrong |-> <<"d","i","d"," ","n","o","t">>, right |-> <<"d","i","d","n","'","t">>],  \* "did not": "didn't"
     [wrong |-> <<"h","a","v","e"," ","n","o","t">>, right |-> <<"h","a","v","e","n","'","t">>],  \* "have not": "haven't"
     [wrong |-> <<"h","a","s"," ","n","o","t">>, right |-> <<"h","a","s","n","'","t">>],  \* "has not": "hasn't"
     [wrong |-> <<"h","a","d"," ","n","o","t">>, right |-> <<"h","a","d","n","'","t">>],  \* "had not": "hadn't"
     [wrong |-> <<"w","i","l","l"," ","n","o","t">>, right |-> <<"w","o","n","'","t">>],  \* "will not": "won't"
     [wrong |-> <<"c","a","n","n","o","t">>, right |-> <<"c","a","n","'","t">>],  \* "cannot": "can't"
     [wrong |-> <<"c","o","u","l","d"," ","n","o","t">>, right |-> <<"c","o","u","l","d","n","'","t">>],  \* "could not": "couldn't"
     [wrong |-> <<"s","h","o","u","l","d"," ","n","o","t">>, right |-> <<"s","h","o","u","l","d","n","'","t">>],  \* "should not": "shouldn't"
     [wrong |-> <<"w","o","u","l","d"," ","n","o","t">>, right |-> <<"w","o","u","l","d","n","'","t">>] >>  \* "would not": "wouldn't"

\* common_errors of analyze_grammar_and_words, in declaration order.
ta_common_errors ==
  << [wrong |-> <<"i"," ","i","s">>, right |-> <<"I"," ","a","m">>],  \* "i is": "I am"
     [wrong |-> <<"i"," ","a","r","e">>, right |-> <<"I"," ","a","m">>],  \* "i are": "I am"
     [wrong |-> <<"h","e"," ","a","r","e">>, right |-> <<"h","e"," ","i","s">>],  \* "he are": "he is"
     [wrong |-> <<"s","h","e"," ","a","r","e">>, right |-> <<"s","h","e"," ","i","s">>],  \* "she are": "she is"
     [wrong |-> <<"i","t"," ","a","r","e">>, right |-> <<"i","t"," ","i","s">>],  \* "it are": "it is"
     [wrong |-> <<"w","e"," ","i","s">>, right |-> <<"w","e"," ","a","r","e">>],  \* "we is": "we are"
     [wrong |-> <<"t","h","e","y"," ","i","s">>, right |-> <<"t","h","e","y"," ","a","r","e">>],  \* "they is": "they are"
     [wrong |-> <<"s","t","o","r","e">>, right |-> <<"l","i","v","e">>],  \* "store": "live"
     [wrong |-> <<"b","u","y","e","d">>, right |-> <<"b","o","u","g","h","t">>],  \* "buyed": "bought"
     [wrong |-> <<"g","o","e","d">>, right |-> <<"w","e","n","t">>],  \* "goed": "went"
     [wrong |-> <<"e","a","t","e","d">>, right |-> <<"a","t","e">>],  \* "eated": "ate"
     [wrong |-> <<"r","u","n","n","e","d">>, right |-> <<"r","a","n">>],  \* "runned": "ran"
     [wrong |-> <<"i","n"," ","j","a","p","a","n">>, right |-> <<"i","n"," ","J","a","p","a","n">>],  \* "in japan": "in Japan"
     [wrong |-> <<"o","n"," ","j","a","p","a","n">>, right |-> <<"i","n"," ","J","a","p","a","n">>],  \* "on japan": "in Japan"
     [wrong |-> <<"a","t"," ","j","a","p","a","n">>, right |-> <<"i","n"," ","J","a","p","a","n">>],  \* "at japan": "in Japan"
     [wrong |-> <<"i","n"," ","h","o","m","e">>, right |-> <<"a","t"," ","h","o","m","e">>],  \* "in home": "at home"
     [wrong |-> <<"o","n"," ","h","o","m","e">>, right |-> <<"a","t"," ","h","o","m","e">>],  \* "on home": "at home"
     [wrong |-> <<"a"," ","a","p","p","l","e">>, right |-> <<"a","n"," ","a","p","p","l","e">>],  \* "a apple": "an apple"
     [wrong |-> <<"a"," ","h","o","u","r">>, right |-> <<"a","n"," ","h","o","u","r">>],  \* "a hour": "an hour"
     [wrong |-> <<"a","n"," ","b","o","o","k">>, right |-> <<"a"," ","b","o","o","k">>],  \* "an book": "a book"
     [wrong |-> <<"a","n"," ","u","n","i","v","e","r","s","i","t","y">>, right |-> <<"a"," ","u","n","i","v","e","r","s","i","t","y">>] >>  \* "an university": "a university"

\* contractions of correct_common_contractions, in declaration order.
ta_contractions ==
  << [wrong |-> <<"i"," ","a","m">>, right |-> <<"I","'","m">>],  \* "i am": "I'm"
     [wrong |-> <<"i"," ","w","i","l","l">>, right |-> <<"I","'","l","l">>],  \* "i will": "I'll"
     [wrong |-> <<"i"," ","h","a","v","e">>, right |-> <<"I","'","v","e">>],  \* "i have": "I've"
     [wrong |-> <<"y","o","u"," ","a","r","e">>, right |-> <<"y","o","u","'","r","e">>],  \* "you are": "you're"
     [wrong |-> <<"h","e"," ","i","s">>, right |-> <<"h","e","'","s">>],  \* "he is": "he's"
     [wrong |-> <<"s","h","e"," ","i","s">>, right |-> <<"s","h","e","'","s">>],  \* "she is": "she's"
     [wrong |-> <<"i","t"," ","i","s">>, right |-> <<"i","t","'","s">>],  \* "it is": "it's"
     [wrong |-> <<"w","e"," ","a","r","e">>, right |-> <<"w","e","'","r","e">>],  \* "we are": "we're"
     [wrong |-> <<"t","h","e","y"," ","a","r","e">>, right |-> <<"t","h","e","y","'","r","e">>],  \* "they are": "they're"
     [wrong |-> <<"i","s"," ","n","o","t">>, right |-> <<"i","s","n","'","t">>],  \* "is not": "isn't"
     [wrong |-> <<"a","r","e"," ","n","o","t">>, right |-> <<"a","r","e","n","'","t">>],  \* "are not": "aren't"
     [wrong |-> <<"w","a","s"," ","n","o","t">>, right |-> <<"w","a","s","n","'","t">>],  \* "was not": "wasn't"
     [wrong |-> <<"w","e","r","e"," ","n","o","t">>, right |-> <<"w","e","r","e","n","'","t">>],  \* "were not": "weren't"
     [wrong |-> <<"d","o"," ","n","o","t">>, right |-> <<"d","o","n","'","t">>],  \* "do not": "don't"
     [wrong |-> <<"d","o","e","s"," ","n","o","t">>, right |-> <<"d","o","e","s","n","'","t">>],  \* "does not": "doesn't"
     [wrong |-> <<"d","i","d"," ","n","o","t">>, right |-> <<"d","i","d","n","'","t">>],  \* "did not": "didn't"
     [wrong |-> <<"h","a","v","e"," ","n","o","t">>, right |-> <<"h","a","v","e","n","'","t">>],  \* "have not": "haven't"
     [wrong |-> <<"h","a","s"," ","n","o","t">>, right |-> <<"h","a","s","n","'","t">>],  \* "has not": "hasn't"
     [wrong |-> <<"h","a","d"," ","n","o","t">>, right |-> <<"h","a","d","n","'","t">>],  \* "had not": "hadn't"
     [wrong |-> <<"w","i","l","l"," ","n","o","t">>, right |-> <<"w","o","n","'","t">>],  \* "will not": "won't"
     [wrong |-> <<"w","o","u","l","d"," ","n","o","t">>, right |-> <<"w","o","u","l","d","n","'","t">>],  \* "would not": "wouldn't"
     [wrong |-> <<"s","h","o","u","l","d"," ","n","o","t">>, right |-> <<"s","h","o","u","l","d","n","'","t">>],  \* "should not": "shouldn't"
     [wrong |-> <<"c","o","u","l","d"," ","n","o","t">>, right |-> <<"c","o","u","l","d","n","'","t">>],  \* "could not": "couldn't"
     [wrong |-> <<"c","a","n","n","o","t">>, right |-> <<"c","a","n","'","t">>] >>  \* "cannot": "can't"


\* match.group() of the match of \b<word>\b at position i.
group(s, word, i) == SubSeq(s, i, i + Len(word) - 1)

(***************************************************************************)
(* simple_text_analysis.py: EnhancedGrammarChecker                         *)
(***************************************************************************)
\* _match_case: the replacement in the casing style of the matched span.
_match_case(replacement, original) ==
  IF isupper(original) THEN upper(replacement)
  ELSE IF istitle(original) THEN title(replacement)
  ELSE lower(replacement)

\* _contains_word: re.search(r'\b' + re.escape(word) + r'\b', text,
\* re.IGNORECASE) is not None.
_contains_word(text, word) == re_search(text, word, 1, TRUE) # 0

\* _extract_word: the span of the leftmost match, or the word itself.
_extract_word(text, word) ==
  LET i == re_search(text, word, 1, TRUE)
  IN  IF i = 0 THEN word ELSE group(text, word, i)

\* pattern.sub(lambda m: self._match_case(right, m.group()), text): every
\* non-overlapping match, left to right, each replaced by the replacement
\* re-cased after its own span.
RECURSIVE _replace_word_from(_, _, _, _)
_replace_word_from(text, wrong, right, from) ==
  LET i == re_search(text, wrong, from, TRUE)
  IN  IF i = 0 THEN SubSeq(text, from, Len(text))
      ELSE SubSeq(text, from, i - 1)
             \o _match_case(right, group(text, wrong, i))
             \o _replace_word_from(text, wrong, right, i + Len(wrong))

\* _replace_word
_replace_word(text, wrong, right) == _replace_word_from(text, wrong, right, 1)

\* _fix_capitalization
_fix_capitalization(text) == capitalize_first(text)

\* A period appended to whatever text comes in.
_append_period(text) == text \o << "." >>

\* _fix_sentence_end
_fix_sentence_end(text) ==
  IF Len(text) > 0 /\ ~endswith_mark(text) THEN text \o << "." >> ELSE text

\* The record appended by _apply_rule_corrections.  The message is a
\* function of the two texts ('"<original>" should be "<corrected>"') and is
\* left out.
rule_correction(wrong_word, right) ==
  [ original |-> wrong_word, corrected |-> right,
    category |-> "GRAMMAR", type |-> "rule_based" ]

\* The loop of _apply_rule_corrections from entry k of the table on: the
\* text and the records after the remaining entries.
RECURSIVE rule_loop(_, _, _, _)
rule_loop(table, k, corrected, corrections) ==
  IF k > Len(table) THEN [ text |-> corrected, corrections |-> corrections ]
  ELSE LET wrong == table[k].wrong
           right == table[k].right
       IN  IF _contains_word(corrected, wrong)
           THEN LET after == _replace_word(corrected, wrong, right)
                IN  IF corrected # after
                    THEN rule_loop(table, k + 1, after,
                           Append(corrections,
                             rule_correction(_extract_word(corrected, wrong), right)))
                    ELSE rule_loop(table, k + 1, after, corrections)
           ELSE rule_loop(table, k + 1, corrected, corrections)

\* _apply_rule_corrections(text) on the checker's common_errors table.
_apply_rule_corrections(self, text) ==
  rule_loop(self.common_errors, 1, text, << >>)

\* _fix_contractions(text) on the checker's contractions table.
RECURSIVE contraction_loop(_, _, _)
contraction_loop(table, k, corrected) ==
  IF k > Len(table) THEN corrected
  ELSE IF _contains_word(corrected, table[k].wrong)
       THEN contraction_loop(table, k + 1,
              _replace_word(corrected, table[k].wrong, table[k].right))
       ELSE contraction_loop(table, k + 1, corrected)

_fix_contractions(self, text) == contraction_loop(self.contractions, 1, text)

\* Python's None as an api_result.
NoneResult ==
  [ none |-> TRUE, empty |-> FALSE, has_matches |-> FALSE, matches |-> << >> ]

\* check_with_languagetool: the parsed body when the POST returns status 200
\* and the body parses; None on a connection error, a timeout, a non-200
\* status or an unparsable body.
check_with_languagetool(reply) ==
  IF reply.outcome = "ok" THEN reply.body ELSE NoneResult

\* `api_result and 'matches' in api_result`
has_matches(api_result) ==
  /\ ~api_result.none
  /\ ~api_result.empty
  /\ api_result.has_matches

\* One match of _process_api_results, in evaluation order: a KeyError for a
\* first replacement without 'value', then for a missing 'offset', then for a
\* missing 'length'.
match_raises(match) ==
  /\ Len(match.replacements) > 0
  /\ \/ ~match.replacements[1].has_value
     \/ ~match.has_offset
     \/ ~match.has_length

\* The record built from a well-formed match.  The message is copied from
\* the match and is left out.
api_correction(text, match) ==
  [ original |-> slice(text, match.offset, match.length),
    corrected |-> match.replacements[1].value,
    category |-> match.category, type |-> "api_based" ]

\* _process_api_results: the records of the matches that offer a
\* replacement, without exact repeats; raised is TRUE when a match raises.
RECURSIVE _process_api_results_from(_, _, _, _)
_process_api_results_from(text, matches, k, corrections) ==
  IF k > Len(matches) THEN [ raised |-> FALSE, corrections |-> corrections ]
  ELSE IF Len(matches[k].replacements) = 0
       THEN _process_api_results_from(text, matches, k + 1, corrections)
       ELSE IF match_raises(matches[k])
            THEN [ raised |-> TRUE, corrections |-> corrections ]
            ELSE LET c == api_correction(text, matches[k])
                 IN  IF \E j \in 1..Len(corrections) :
                           /\ corrections[j].original = c.original
                           /\ corrections[j].corrected = c.corrected
                     THEN _process_api_results_from(text, matches, k + 1, corrections)
                     ELSE _process_api_results_from(text, matches, k + 1,
                            Append(corrections, c))

_process_api_results(text, matches) ==
  _process_api_results_from(text, matches, 1, << >>)

\* _apply_api_correction
_apply_api_correction(text, correction) ==
  replace_all(text, correction.original, correction.corrected)

\* The loop `for correction in api_corrections` of correct_text.
RECURSIVE apply_api_corrections(_, _, _)
apply_api_corrections(text, corrections, k) ==
  IF k > Len(corrections) THEN text
  ELSE apply_api_corrections(_apply_api_correction(text, corrections[k]),
                             corrections, k + 1)

\* _generate_analysis_summary, by its two shapes.
_generate_analysis_summary(total_errors) ==
  IF total_errors = 0 THEN "Excellent" ELSE "HasErrors"

(***************************************************************************)
(* text_analysis.py                                                        *)
(***************************************************************************)
\* re.sub(pattern, repl, text) for the pattern \b<word>\b and a literal
\* replacement: every non-overlapping match, left to right, replaced verbatim.
RECURSIVE re_sub_from(_, _, _, _, _)
re_sub_from(text, word, repl, ignorecase, from) ==
  LET i == re_search(text, word, from, ignorecase)
  IN  IF i = 0 THEN SubSeq(text, from, Len(text))
      ELSE SubSeq(text, from, i - 1) \o repl
             \o re_sub_from(text, word, repl, ignorecase, i + Len(word))

re_sub(text, word, repl, ignorecase) == re_sub_from(text, word, repl, ignorecase, 1)

\* The loop of correct_common_contractions: a case-sensitive re.sub per entry
\* (re.sub returns the text as it is when the pattern has no match).
RECURSIVE ta_contraction_loop(_, _, _)
ta_contraction_loop(table, k, corrected_text) ==
  IF k > Len(table) THEN corrected_text
  ELSE IF re_search(corrected_text, table[k].wrong, 1, FALSE) # 0
       THEN ta_contraction_loop(table, k + 1,
              re_sub(corrected_text, table[k].wrong, table[k].right, FALSE))
       ELSE ta_contraction_loop(table, k + 1, corrected_text)

\* correct_common_contractions: lowercase the whole text, contract, then
\* capitalize the first character.
correct_common_contractions(text) ==
  capitalize_first(ta_contraction_loop(ta_contractions, 1, lower(text)))

\* The `I name` fix of analyze_grammar_and_words (Step 3).
I_name == << "I", " ", "n", "a", "m", "e" >>

My_name == << "M", "y", " ", "n", "a", "m", "e" >>

fix_I_name(st) ==
  IF re_search(st.text, I_name, 1, TRUE) # 0
  THEN [ text |-> re_sub(st.text, I_name, My_name, TRUE),
         corrections |-> Append(st.corrections,
           [ original |-> << "I" >>, corrected |-> << "M", "y" >>,
             category |-> "PRONOUN_USAGE" ]) ]
  ELSE st

\* The loop `for wrong, right in common_errors.items()` from entry k on.
RECURSIVE common_errors_loop(_, _, _, _)
common_errors_loop(table, k, corrected_text, corrections) ==
  IF k > Len(table)
  THEN [ text |-> corrected_text, corrections |-> corrections ]
  ELSE LET wrong == table[k].wrong
           right == table[k].right
           i     == re_search(corrected_text, wrong, 1, TRUE)
       IN  IF i # 0
           THEN LET original_word == group(corrected_text, wrong, i)
                    after == re_sub(corrected_text, wrong, right, TRUE)
                IN  IF lower(original_word) # lower(right)
                    THEN common_errors_loop(table, k + 1, after,
                           Append(corrections,
                             [ original |-> original_word, corrected |-> right,
                               category |-> "WORD_USAGE" ]))
                    ELSE common_errors_loop(table, k + 1, after, corrections)
           ELSE common_errors_loop(table, k + 1, corrected_text, corrections)

\* Step 1: the records built from tool.check's matches.  The whole loop is
\* inside one try: an exception (tool.check raising, a match without one of
\* the attributes read) ends the loop and keeps the records built so far.
\* For the short sentences modelled, match.context is the checked text.
RECURSIVE grammar_corrections_from(_, _, _, _)
grammar_corrections_from(original_text, matches, k, acc) ==
  IF k > Len(matches) THEN acc
  ELSE LET m == matches[k]
       IN  IF Len(m.replacements) = 0
           THEN grammar_corrections_from(original_text, matches, k + 1, acc)
           ELSE IF ~m.has_offset \/ ~m.has_length THEN acc
                ELSE grammar_corrections_from(original_text, matches, k + 1,
                       Append(acc,
                         [ original |-> slice(original_text, m.offset, m.length),
                           corrected |-> m.replacements[1].value,
                           category |-> m.category ]))

\* `if tool:` ... tool.check(original_text) ... `except Exception`.
languagetool_corrections(tool_ok, reply, original_text) ==
  IF tool_ok /\ reply.outcome = "ok"
  THEN grammar_corrections_from(original_text, reply.body.matches, 1, << >>)
  ELSE << >>

\* Step 4: each LanguageTool record whose original is still a substring
\* replaces its first occurrence and is appended.
RECURSIVE apply_grammar_corrections(_, _, _)
apply_grammar_corrections(st, grammar_corrections, k) ==
  IF k > Len(grammar_corrections) THEN st
  ELSE LET gc == grammar_corrections[k]
       IN  IF contains(st.text, gc.original)
           THEN apply_grammar_corrections(
                  [ text |-> replace_first(st.text, gc.original, gc.corrected),
                    corrections |-> Append(st.corrections, gc) ],
                  grammar_corrections, k + 1)
           ELSE apply_grammar_corrections(st, grammar_corrections, k + 1)

\* Step 6: the dedup key of a record.
dedup_key(correction) ==
  << lower(correction.original), lower(correction.corrected) >>

\* Step 6: the first record of every key, in order.
RECURSIVE unique_from(_, _, _)
unique_from(corrections, k, unique_corrections) ==
  IF k > Len(corrections) THEN unique_corrections
  ELSE IF \E j \in 1..Len(unique_corrections) :
            dedup_key(unique_corrections[j]) = dedup_key(corrections[k])
       THEN unique_from(corrections, k + 1, unique_corrections)
       ELSE unique_from(corrections, k + 1,
              Append(unique_corrections, corrections[k]))

unique(corrections) == unique_from(corrections, 1, << >>)

(***************************************************************************)
(* The confidence score (both files)                                       *)
(***************************************************************************)
\* max(1, total_words)
max1(n) == IF n < 1 THEN 1 ELSE n

\* The score without its clamp at zero: 1.0 - wrong_word_count / max(1, total_words).
confidence_unclamped(wrong_word_count, total_words) ==
  [ num |-> max1(total_words) - wrong_word_count, den |-> max1(total_words) ]

\* confidence = max(0.0, 1.0 - (wrong_word_count / max(1, total_words))),
\* kept exact as the fraction num / den.
confidence_of(wrong_word_count, total_words) ==
  LET den == max1(total_words)
  IN  [ num |-> IF den - wrong_word_count < 0 THEN 0 ELSE den - wrong_word_count,
        den |-> den ]

\* round(confidence, 2), in hundredths.  Python rounds a tie to the even
\* hundredth; a tie needs a denominator that is a multiple of 8.
round2(c) ==
  LET q == (100 * c.num) \div c.den
      r == (100 * c.num) % c.den
  IN  IF 2 * r > c.den THEN q + 1
      ELSE IF 2 * r < c.den THEN q
      ELSE IF q % 2 = 0 THEN q ELSE q + 1

(***************************************************************************)
(* The two pipelines as functions of their inputs                          *)
(***************************************************************************)
\* The test `not text` alone, which lets whitespace-only text through.
is_empty(text) == Len(text) = 0

\* `not text or not text.strip()`
is_blank(text) == Len(strip(text)) = 0

\* correct_text(text) of a checker `self`, given the reply the LanguageTool
\* API gives to its one POST: the returned tuple, or raised = TRUE when
\* _process_api_results raises.
correct_text(self, text, reply) ==
  IF is_blank(text)
  THEN [ raised |-> FALSE, corrected |-> text, corrections |-> << >>,
         total_errors |-> 0, analysis_summary |-> "No text provided" ]
  ELSE LET original   == strip(text)
           ruled      == _apply_rule_corrections(self, _fix_capitalization(original))
           api_result == check_with_languagetool(reply)
           processed  == IF has_matches(api_result)
                         THEN _process_api_results(ruled.text, api_result.matches)
                         ELSE [ raised |-> FALSE, corrections |-> << >> ]
           corrections == ruled.corrections \o processed.corrections
           applied    == apply_api_corrections(ruled.text, processed.corrections, 1)
           corrected  == _fix_contractions(self, _fix_sentence_end(applied))
       IN  IF processed.raised
           THEN [ raised |-> TRUE, corrected |-> << >>, corrections |-> << >>,
                  total_errors |-> 0, analysis_summary |-> "" ]
           ELSE [ raised |-> FALSE, corrected |-> corrected,
                  corrections |-> corrections,
                  total_errors |-> Len(corrections),
                  analysis_summary |-> _generate_analysis_summary(Len(corrections)) ]

\* Steps 3 to 5 and the final capitalization and period of
\* analyze_grammar_and_words, from the stripped text and the Step 1 records.
ta_corrected(original_text, grammar_corrections) ==
  LET named   == fix_I_name([ text |-> original_text, corrections |-> << >> ])
      ruled   == common_errors_loop(ta_common_errors, 1, named.text, named.corrections)
      applied == apply_grammar_corrections(ruled, grammar_corrections, 1)
      capped  == capitalize_first(correct_common_contractions(applied.text))
  IN  [ text |-> IF Len(capped) > 0 /\ ~endswith_mark(capped)
                 THEN capped \o << "." >> ELSE capped,
        corrections |-> applied.corrections ]

\* analyze_grammar_and_words(text), given whether `tool` is set and the reply
\* tool.check gives: the returned dict, the confidence in hundredths.
analyze_grammar_and_words(tool_ok, text, reply) ==
  IF is_blank(text)
  THEN [ corrected_sentence |-> text, wrong_word_count |-> 0,
         corrections |-> << >>, confidence |-> 100 ]
  ELSE LET original_text == strip(text)
           st == ta_corrected(original_text,
                   languagetool_corrections(tool_ok, reply, original_text))
           unique_corrections == unique(st.corrections)
       IN  [ corrected_sentence |-> st.text,
             wrong_word_count |-> Len(unique_corrections),
             corrections |-> unique_corrections,
             confidence |-> round2(confidence_of(Len(unique_corrections),
                                                 split_len(original_text))) ]

(***************************************************************************)
(* Bounds and inputs                                                       *)
(***************************************************************************)
\* The longest generated sentence, in words.
MaxWords == 2

\* The most matches in one reply of the grammar service.
MaxMatches == 2

\* The number of requests in flight in SpecConcurrent.
NumRequests == 2

\* The words the generated sentences are made of.
Vocabulary ==
  { <<"i">>, <<"I">>, <<"i","s">>, <<"I","s">>, <<"a","r","e">>,
    <<"n","o","t">>, <<"Y","o","u","r">>, <<"n","a","m","e">> }

\* The sentences of exactly n words, single spaces between them.
RECURSIVE SentencesOf(_)
SentencesOf(n) ==
  IF n = 1 THEN Vocabulary
  ELSE { s \o << " " >> \o w : s \in SentencesOf(n - 1), w \in Vocabulary }

\* The generated sentences, each also with a terminal "!".
Sentences ==
  LET plain == UNION { SentencesOf(n) : n \in 1..MaxWords }
  IN  plain \cup { s \o << "!" >> : s \in plain }

\* "i is hungry", "I IS HUNGRY", "I Is hungry", "i are happy",
\* "he are happy", "he are happy?", "me name is john", " i is ".
Examples ==
  { <<"i"," ","i","s"," ","h","u","n","g","r","y">>,
    <<"I"," ","I","S"," ","H","U","N","G","R","Y">>,
    <<"I"," ","I","s"," ","h","u","n","g","r","y">>,
    <<"i"," ","a","r","e"," ","h","a","p","p","y">>,
    <<"h","e"," ","a","r","e"," ","h","a","p","p","y">>,
    <<"h","e"," ","a","r","e"," ","h","a","p","p","y","?">>,
    <<"m","e"," ","n","a","m","e"," ","i","s"," ","j","o","h","n">>,
    <<" ","i"," ","i","s"," ">> }

\* "", " ", "  "
BlankTexts == { << >>, << " " >>, << " ", " " >> }

\* The sentences for which the grammar service is also modelled as
\* answering: "buyed", "buyed buyed", "buyed buyeds", "not not".
OnlineTexts ==
  { <<"b","u","y","e","d">>,
    <<"b","u","y","e","d"," ","b","u","y","e","d">>,
    <<"b","u","y","e","d"," ","b","u","y","e","d","s">>,
    <<"n","o","t"," ","n","o","t">> }

\* The sentences of SpecConcurrent: "i is", "Your name".
ConcurrentTexts ==
  { <<"i"," ","i","s">>, <<"Y","o","u","r"," ","n","a","m","e">> }

\* The replacement texts the grammar service offers: "" and "bought".
ReplacementValues == { << >>, <<"b","o","u","g","h","t">> }

\* offset and length of every whitespace-delimited word of a text.
WordSpans(text) ==
  { sp \in [ offset : 0..Len(text), length : 1..Len(text) ] :
      LET i == sp.offset + 1
          j == sp.offset + sp.length
      IN  /\ j <= Len(text)
          /\ \A k \in i..j : ~IsSpace(text[k])
          /\ (i = 1 \/ IsSpace(text[i-1]))
          /\ (j = Len(text) \/ IsSpace(text[j+1])) }

\* The matches the grammar service may report on a text: a word of the text
\* with one offered replacement; and, on the first word, a match with an
\* empty replacement list, one whose replacement has no value, one without
\* offset and one without length.
WellFormedMatches(text) ==
  { [ replacements |-> << [ has_value |-> TRUE, value |-> v ] >>,
      has_offset |-> TRUE, offset |-> sp.offset,
      has_length |-> TRUE, length |-> sp.length, category |-> "TYPOS" ] :
      sp \in WordSpans(text), v \in ReplacementValues }

MalformedMatches(text) ==
  LET first == CHOOSE sp \in WordSpans(text) : sp.offset = 0
      good  == [ replacements |->
                   << [ has_value |-> TRUE, value |-> <<"b","o","u","g","h","t">> ] >>,
                 has_offset |-> TRUE, offset |-> first.offset,
                 has_length |-> TRUE, length |-> first.length,
                 category |-> "TYPOS" ]
  IN  { [ good EXCEPT !.replacements = << >> ],
        [ good EXCEPT !.replacements = << [ has_value |-> FALSE, value |-> << >> ] >> ],
        [ good EXCEPT !.has_offset = FALSE ],
        [ good EXCEPT !.has_length = FALSE ] }

\* Sequences of at most n elements of S.
RECURSIVE SeqsUpTo(_, _)
SeqsUpTo(S, n) ==
  IF n = 0 THEN { << >> }
  ELSE LET shorter == SeqsUpTo(S, n - 1)
       IN  shorter \cup { Append(q, x) : q \in { p \in shorter : Len(p) = n - 1 }, x \in S }

\* The replies the LanguageTool HTTP API may give to a request whose service
\* is online: an empty JSON object, an object without 'matches', or an
\* object with up to MaxMatches matches.
JsonBodies(text) ==
  { [ none |-> FALSE, empty |-> TRUE, has_matches |-> FALSE, matches |-> << >> ],
    [ none |-> FALSE, empty |-> FALSE, has_matches |-> FALSE, matches |-> << >> ] }
  \cup
  { [ none |-> FALSE, empty |-> FALSE, has_matches |-> TRUE, matches |-> ms ] :
      ms \in SeqsUpTo(WellFormedMatches(text) \cup MalformedMatches(text), MaxMatches) }

\* The replies of language_tool_python's tool.check: Match objects, whose
\* replacements are plain strings.
ToolBodies(text) ==
  { [ none |-> FALSE, empty |-> FALSE, has_matches |-> TRUE, matches |-> ms ] :
      ms \in SeqsUpTo(WellFormedMatches(text)
                        \cup { m \in MalformedMatches(text) :
                                 \A k \in 1..Len(m.replacements) : m.replacements[k].has_value },
                      MaxMatches) }

\* The outcomes of a call of the grammar service that is not answered.
FailureOutcomes == { "unreachable", "timeout", "bad_status", "unparsable" }

FailureReplies == { [ outcome |-> o, body |-> NoneResult ] : o \in FailureOutcomes }

\* What the grammar service may reply to a request, for the text it is asked
\* about.
Replies(module, online, text) ==
  IF ~online \/ Len(text) = 0 \/ IsSpace(text[1]) THEN FailureReplies
  ELSE FailureReplies \cup
       { [ outcome |-> "ok", body |-> b ] :
           b \in IF module = "simple_text_analysis" THEN JsonBodies(text)
                 ELSE ToolBodies(text) }

(***************************************************************************)
(* State                                                                   *)
(***************************************************************************)
VARIABLES
  req,              \* per request: its input, the handler's locals, its response
  grammar_checker,  \* simple_text_analysis.grammar_checker (process-wide)
  tool              \* text_analysis.tool: TRUE when LanguageTool was initialised

vars == << req, grammar_checker, tool >>

RequestIds == 1..NumRequests

\* EnhancedGrammarChecker.__init__
checker_init ==
  [ common_errors |-> common_errors, contractions |-> contractions ]

\* The response before the handler has produced one.
NoResponse ==
  [ status |-> "none", error |-> "", corrected_sentence |-> << >>,
    wrong_word_count |-> 0, corrections |-> << >>, confidence |-> -1,
    analysis_summary |-> "", total_words |-> -1 ]

\* The confidence of a request before it is scored.
NoConfidence == [ num |-> -1, den |-> 1 ]

\* A request as it arrives: module is the program that serves it, entry is
\* "endpoint" for a POST to /analyze-text and "direct" for a call of the
\* pipeline function itself; online tells whether the grammar service
\* answers calls made for this request.  Three fields are bookkeeping of the
\* model and not locals of the code: service (what kind of reply the grammar
\* service gave), api_calls (how often it was called) and stages (the stages
\* run so far, in order).
NewRequest(module, entry, has_data, text, language, online) ==
  [ module |-> module, entry |-> entry, has_data |-> has_data,
    data_text |-> text, language |-> language, online |-> online,
    pc |-> IF entry = "endpoint" THEN "endpoint" ELSE "call",
    text |-> IF entry = "endpoint" THEN << >> ELSE text,
    original |-> << >>, corrected |-> << >>, corrections |-> << >>,
    api_result |-> NoneResult, grammar_corrections |-> << >>,
    unique_corrections |-> << >>,
    total_words |-> -1, wrong_word_count |-> -1, confidence |-> NoConfidence,
    analysis_summary |-> "",
    response |-> NoResponse,
    service |-> "not_called", api_calls |-> 0, stages |-> << >> ]

\* A slot that holds no request.
Idle ==
  [ NewRequest("none", "direct", FALSE, << >>, "en", FALSE) EXCEPT !.pc = "idle" ]

Modules == { "simple_text_analysis", "text_analysis" }

\* The requests of Spec: every sentence through either endpoint with the
\* grammar service not answering; the online sentences with the service
\* answering; blank and padded texts given to the pipeline functions
\* directly; and the requests the endpoint rejects.
SpecRequests ==
  { NewRequest(m, "endpoint", TRUE, t, "en", FALSE) :
      m \in Modules, t \in Sentences \cup Examples \cup OnlineTexts }
  \cup
  { NewRequest(m, "endpoint", TRUE, t, "en", TRUE) : m \in Modules, t \in OnlineTexts }
  \cup
  { NewRequest(m, "direct", TRUE, t, "en", o) :
      m \in Modules, t \in BlankTexts \cup Examples \cup OnlineTexts, o \in BOOLEAN }
  \cup
  { NewRequest(m, "endpoint", d, t, l, FALSE) :
      m \in Modules, d \in BOOLEAN, t \in BlankTexts \cup ConcurrentTexts,
      l \in { "en", "fr" } }

\* The requests of SpecConcurrent.
ConcurrentRequests ==
  { NewRequest(m, "endpoint", TRUE, t, "en", FALSE) :
      m \in Modules, t \in ConcurrentTexts }

TypeOK ==
  /\ DOMAIN req = RequestIds
  /\ tool \in BOOLEAN
  /\ DOMAIN grammar_checker = { "common_errors", "contractions" }

\* One request at a time.
Init ==
  /\ \E q \in SpecRequests :
       req = [ r \in RequestIds |-> IF r = 1 THEN q ELSE Idle ]
  /\ grammar_checker = checker_init
  /\ tool \in IF req[1].module = "text_analysis" THEN BOOLEAN ELSE { FALSE }

\* NumRequests requests in flight at once.
InitConcurrent ==
  /\ req \in [ RequestIds -> ConcurrentRequests ]
  /\ grammar_checker = checker_init
  /\ tool = TRUE

(***************************************************************************)
(* The /analyze-text endpoint (the same handler in both files)             *)
(***************************************************************************)
Respond400(q, message) ==
  [ q EXCEPT !.pc = "done",
             !.response = [ NoResponse EXCEPT !.status = "400", !.error = message ] ]

\* The except branch of the handler: a 500 that echoes data.get('text', '').
Respond500(q) ==
  [ q EXCEPT !.pc = "done",
             !.response = [ NoResponse EXCEPT
                              !.status = "500", !.error = "Analysis failed",
                              !.corrected_sentence = q.data_text,
                              !.wrong_word_count = 0, !.corrections = << >>,
                              !.analysis_summary =
                                IF q.module = "simple_text_analysis"
                                THEN "Analysis failed due to an error" ELSE "" ] ]

\* An exception that leaves the pipeline function: the endpoint answers 500,
\* a direct caller sees the exception.
Raise(q) ==
  IF q.entry = "endpoint" THEN Respond500(q)
  ELSE [ q EXCEPT !.pc = "done", !.response = [ NoResponse EXCEPT !.status = "raised" ] ]

\* analyze_text_endpoint up to the call of the pipeline: the three 400s.
analyze_text_endpoint(r) ==
  /\ req[r].pc = "endpoint"
  /\ LET q    == req[r]
         text == strip(q.data_text)
     IN  req' = [ req EXCEPT ![r] =
           IF ~q.has_data THEN Respond400(q, "No JSON data provided")
           ELSE IF Len(text) = 0 THEN Respond400(q, "No text provided for analysis")
           ELSE IF q.language # "en"
                THEN Respond400(q, "Only English language is currently supported")
           ELSE [ q EXCEPT !.pc = "call", !.text = text ] ]
  /\ UNCHANGED << grammar_checker, tool >>

(***************************************************************************)
(* simple_text_analysis.py: correct_text, stage by stage                   *)
(***************************************************************************)
IsSimple(r, pc) == req[r].module = "simple_text_analysis" /\ req[r].pc = pc

\* A checker that drops from its table the patterns that fired on a text.
checker_consumed(self, text) ==
  [ self EXCEPT !.common_errors =
      SelectSeq(self.common_errors,
                LAMBDA entry : ~_contains_word(text, entry.wrong)) ]

\* _apply_rule_corrections and _fix_contractions only read the tables of
\* self: the checker after a stage is the checker before it.
checker_after(self, text) == self

\* correct_text with the contractions expanded before the sentence end is
\* fixed.
simple_next_swapped(pc) ==
  CASE pc = "call" -> "fix_capitalization"
    [] pc = "fix_capitalization" -> "apply_rule_corrections"
    [] pc = "apply_rule_corrections" -> "check_with_languagetool"
    [] pc = "check_with_languagetool" -> "process_api_results"
    [] pc = "process_api_results" -> "fix_contractions"
    [] pc = "fix_contractions" -> "fix_sentence_end"
    [] pc = "fix_sentence_end" -> "return"
    [] OTHER -> "done"

\* The order of the statements of correct_text (lines 121-145): the stage that
\* follows each stage.
simple_next(pc) ==
  CASE pc = "call" -> "fix_capitalization"
    [] pc = "fix_capitalization" -> "apply_rule_corrections"
    [] pc = "apply_rule_corrections" -> "check_with_languagetool"
    [] pc = "check_with_languagetool" -> "process_api_results"
    [] pc = "process_api_results" -> "fix_sentence_end"
    [] pc = "fix_sentence_end" -> "fix_contractions"
    [] pc = "fix_contractions" -> "return"
    [] OTHER -> "done"

\* What kind of reply the grammar service gave.
service_kind(reply) ==
  IF reply.outcome # "ok" THEN "unavailable"
  ELSE IF ~has_matches(reply.body) \/ Len(reply.body.matches) = 0 THEN "empty"
  ELSE IF \E k \in 1..Len(reply.body.matches) : match_raises(reply.body.matches[k])
       THEN "malformed"
  ELSE "suggestions"

\* correct_text, lines 115-119: the blank short-circuit, or strip.
correct_text_begin(r) ==
  /\ IsSimple(r, "call")
  /\ LET q == req[r]
     IN  req' = [ req EXCEPT ![r] =
           IF is_blank(q.text)
           THEN [ q EXCEPT !.pc = "return", !.corrected = q.text,
                           !.corrections = << >>, !.wrong_word_count = 0,
                           !.analysis_summary = "No text provided" ]
           ELSE [ q EXCEPT !.pc = simple_next(q.pc),
                           !.original = strip(q.text), !.corrections = << >> ] ]
  /\ UNCHANGED << grammar_checker, tool >>

\* line 122
fix_capitalization(r) ==
  /\ IsSimple(r, "fix_capitalization")
  /\ LET q == req[r]
     IN  req' = [ req EXCEPT ![r] =
           [ q EXCEPT !.pc = simple_next(q.pc),
                      !.corrected = _fix_capitalization(q.original),
                      !.stages = Append(q.stages, "capitalize") ] ]
  /\ UNCHANGED << grammar_checker, tool >>

\* lines 123-124
apply_rule_corrections(r) ==
  /\ IsSimple(r, "apply_rule_corrections")
  /\ LET q     == req[r]
         ruled == _apply_rule_corrections(grammar_checker, q.corrected)
     IN  /\ req' = [ req EXCEPT ![r] =
               [ q EXCEPT !.pc = simple_next(q.pc),
                          !.corrected = ruled.text,
                          !.corrections = q.corrections \o ruled.corrections,
                          !.stages = Append(q.stages, "patterns") ] ]
         /\ grammar_checker' = checker_after(grammar_checker, q.corrected)
  /\ UNCHANGED tool

\* line 127: the POST to the LanguageTool API and what comes back.
call_languagetool(r) ==
  /\ IsSimple(r, "check_with_languagetool")
  /\ \E reply \in Replies("simple_text_analysis", req[r].online, req[r].corrected) :
       LET q == req[r]
       IN  req' = [ req EXCEPT ![r] =
             [ q EXCEPT !.pc = simple_next(q.pc),
                        !.api_result = check_with_languagetool(reply),
                        !.service = service_kind(reply),
                        !.api_calls = q.api_calls + 1,
                        !.stages = Append(q.stages, "external_consult") ] ]
  /\ UNCHANGED << grammar_checker, tool >>

\* lines 128-134: the matches processed and applied, or a KeyError that
\* leaves correct_text.
process_api_results(r) ==
  /\ IsSimple(r, "process_api_results")
  /\ LET q == req[r]
         processed == _process_api_results(q.corrected, q.api_result.matches)
     IN  req' = [ req EXCEPT ![r] =
           IF ~has_matches(q.api_result) THEN [ q EXCEPT !.pc = simple_next(q.pc) ]
           ELSE IF processed.raised THEN Raise(q)
           ELSE [ q EXCEPT !.pc = simple_next(q.pc),
                           !.corrections = q.corrections \o processed.corrections,
                           !.corrected =
                             apply_api_corrections(q.corrected, processed.corrections, 1),
                           !.stages = Append(q.stages, "external_apply") ] ]
  /\ UNCHANGED << grammar_checker, tool >>

\* line 137
fix_sentence_end(r) ==
  /\ IsSimple(r, "fix_sentence_end")
  /\ LET q == req[r]
     IN  req' = [ req EXCEPT ![r] =
           [ q EXCEPT !.pc = simple_next(q.pc),
                      !.corrected = _fix_sentence_end(q.corrected),
                      !.stages = Append(q.stages, "punctuation") ] ]
  /\ UNCHANGED << grammar_checker, tool >>

\* lines 138-143: the contractions, the count and the summary.
fix_contractions(r) ==
  /\ IsSimple(r, "fix_contractions")
  /\ LET q == req[r]
     IN  /\ req' = [ req EXCEPT ![r] =
               [ q EXCEPT !.pc = simple_next(q.pc),
                          !.corrected = _fix_contractions(grammar_checker, q.corrected),
                          !.wrong_word_count = Len(q.corrections),
                          !.analysis_summary =
                            _generate_analysis_summary(Len(q.corrections)),
                          !.stages = Append(q.stages, "contractions") ] ]
         /\ grammar_checker' = checker_after(grammar_checker, q.corrected)
  /\ UNCHANGED tool

\* correct_text returns; the endpoint (lines 268-286) scores and answers.
simple_return(r) ==
  /\ IsSimple(r, "return")
  /\ LET q == req[r]
         total_words == split_len(q.text)
         confidence  == confidence_of(q.wrong_word_count, total_words)
         result == [ NoResponse EXCEPT
                       !.corrected_sentence = q.corrected,
                       !.wrong_word_count = q.wrong_word_count,
                       !.corrections = q.corrections,
                       !.analysis_summary = q.analysis_summary ]
     IN  req' = [ req EXCEPT ![r] =
           IF q.entry = "endpoint"
           THEN [ q EXCEPT !.pc = "done",
                           !.total_words = total_words,
                           !.confidence = confidence,
                           !.stages = Append(q.stages, "score"),
                           !.response = [ result EXCEPT
                                            !.status = "200",
                                            !.confidence = round2(confidence),
                                            !.total_words = total_words ] ]
           ELSE [ q EXCEPT !.pc = "done",
                           !.response = [ result EXCEPT !.status = "returned" ] ] ]
  /\ UNCHANGED << grammar_checker, tool >>

(***************************************************************************)
(* text_analysis.py: analyze_grammar_and_words, stage by stage             *)
(***************************************************************************)
IsTA(r, pc) == req[r].module = "text_analysis" /\ req[r].pc = pc

\* The order of the steps of analyze_grammar_and_words (lines 84-205): the
\* stage that follows each stage.
ta_next(pc) ==
  CASE pc = "call" -> "languagetool"
    [] pc = "languagetool" -> "fix_patterns"
    [] pc = "fix_patterns" -> "apply_grammar_corrections"
    [] pc = "apply_grammar_corrections" -> "contractions"
    [] pc = "contractions" -> "capitalize"
    [] pc = "capitalize" -> "punctuation"
    [] pc = "punctuation" -> "dedup"
    [] pc = "dedup" -> "score"
    [] OTHER -> "done"

\* The dict analyze_grammar_and_words returns, as the endpoint's answer or as
\* the value a direct caller gets.
ta_result(q, corrected_sentence, wrong_word_count, corrections, confidence) ==
  [ NoResponse EXCEPT
      !.status = IF q.entry = "endpoint" THEN "200" ELSE "returned",
      !.corrected_sentence = corrected_sentence,
      !.wrong_word_count = wrong_word_count,
      !.corrections = corrections,
      !.confidence = confidence ]

\* lines 76-85: the blank short-circuit, or strip.
analyze_begin(r) ==
  /\ IsTA(r, "call")
  /\ LET q == req[r]
     IN  req' = [ req EXCEPT ![r] =
           IF is_blank(q.text)
           THEN [ q EXCEPT !.pc = "done",
                           !.response = ta_result(q, q.text, 0, << >>, 100) ]
           ELSE [ q EXCEPT !.pc = ta_next(q.pc),
                           !.original = strip(q.text), !.corrections = << >> ] ]
  /\ UNCHANGED << grammar_checker, tool >>

\* Step 1, lines 87-101: tool.check on the original text, when tool is set.
languagetool_check(r) ==
  /\ IsTA(r, "languagetool")
  /\ \E reply \in Replies("text_analysis", req[r].online, req[r].original) :
       LET q == req[r]
       IN  req' = [ req EXCEPT ![r] =
             IF tool
             THEN [ q EXCEPT !.pc = ta_next(q.pc),
                             !.grammar_corrections =
                               languagetool_corrections(tool, reply, q.original),
                             !.service = service_kind(reply),
                             !.api_calls = q.api_calls + 1,
                             !.stages = Append(q.stages, "external_consult") ]
             ELSE [ q EXCEPT !.pc = ta_next(q.pc), !.service = "unavailable" ] ]
  /\ UNCHANGED << grammar_checker, tool >>

\* Steps 2 and 3, lines 103-162: the `I name` fix and the common errors.
fix_patterns(r) ==
  /\ IsTA(r, "fix_patterns")
  /\ LET q     == req[r]
         named == fix_I_name([ text |-> q.original, corrections |-> q.corrections ])
         ruled == common_errors_loop(ta_common_errors, 1, named.text, named.corrections)
     IN  req' = [ req EXCEPT ![r] =
           [ q EXCEPT !.pc = ta_next(q.pc),
                      !.corrected = ruled.text,
                      !.corrections = ruled.corrections,
                      !.stages = Append(q.stages, "patterns") ] ]
  /\ UNCHANGED << grammar_checker, tool >>

\* Step 4, lines 164-171
apply_languagetool(r) ==
  /\ IsTA(r, "apply_grammar_corrections")
  /\ LET q  == req[r]
         st == apply_grammar_corrections(
                 [ text |-> q.corrected, corrections |-> q.corrections ],
                 q.grammar_corrections, 1)
     IN  req' = [ req EXCEPT ![r] =
           [ q EXCEPT !.pc = ta_next(q.pc),
                      !.corrected = st.text,
                      !.corrections = st.corrections,
                      !.stages = Append(q.stages, "external_apply") ] ]
  /\ UNCHANGED << grammar_checker, tool >>

\* Step 5, line 174
ta_contractions_stage(r) ==
  /\ IsTA(r, "contractions")
  /\ LET q == req[r]
     IN  req' = [ req EXCEPT ![r] =
           [ q EXCEPT !.pc = ta_next(q.pc),
                      !.corrected = correct_common_contractions(q.corrected),
                      !.stages = Append(q.stages, "contractions") ] ]
  /\ UNCHANGED << grammar_checker, tool >>

\* lines 176-178
ta_capitalize(r) ==
  /\ IsTA(r, "capitalize")
  /\ LET q == req[r]
     IN  req' = [ req EXCEPT ![r] =
           [ q EXCEPT !.pc = ta_next(q.pc),
                      !.corrected = capitalize_first(q.corrected),
                      !.stages = Append(q.stages, "capitalize") ] ]
  /\ UNCHANGED << grammar_checker, tool >>

\* lines 180-182
ta_punctuation(r) ==
  /\ IsTA(r, "punctuation")
  /\ LET q == req[r]
     IN  req' = [ req EXCEPT ![r] =
           [ q EXCEPT !.pc = ta_next(q.pc),
                      !.corrected =
                        IF Len(q.corrected) > 0 /\ ~endswith_mark(q.corrected)
                        THEN q.corrected \o << "." >> ELSE q.corrected,
                      !.stages = Append(q.stages, "punctuation") ] ]
  /\ UNCHANGED << grammar_checker, tool >>

\* Step 6, lines 184-192
ta_dedup(r) ==
  /\ IsTA(r, "dedup")
  /\ LET q == req[r]
     IN  req' = [ req EXCEPT ![r] =
           [ q EXCEPT !.pc = ta_next(q.pc),
                      !.unique_corrections = unique(q.corrections),
                      !.stages = Append(q.stages, "dedup") ] ]
  /\ UNCHANGED << grammar_checker, tool >>

\* lines 194-205: the score and the returned dict.
ta_score(r) ==
  /\ IsTA(r, "score")
  /\ LET q == req[r]
         total_words == split_len(q.original)
         wrong_word_count == Len(q.unique_corrections)
         confidence == confidence_of(wrong_word_count, total_words)
     IN  req' = [ req EXCEPT ![r] =
           [ q EXCEPT !.pc = "done",
                      !.total_words = total_words,
                      !.wrong_word_count = wrong_word_count,
                      !.confidence = confidence,
                      !.stages = Append(q.stages, "score"),
                      !.response = ta_result(q, q.corrected, wrong_word_count,
                                             q.unique_corrections, round2(confidence)) ] ]
  /\ UNCHANGED << grammar_checker, tool >>

(***************************************************************************)
(* Specifications                                                          *)
(***************************************************************************)
Next ==
  \E r \in RequestIds :
    \/ analyze_text_endpoint(r)
    \/ correct_text_begin(r)
    \/ fix_capitalization(r)
    \/ apply_rule_corrections(r)
    \/ call_languagetool(r)
    \/ process_api_results(r)
    \/ fix_sentence_end(r)
    \/ fix_contractions(r)
    \/ simple_return(r)
    \/ analyze_begin(r)
    \/ languagetool_check(r)
    \/ fix_patterns(r)
    \/ apply_languagetool(r)
    \/ ta_contractions_stage(r)
    \/ ta_capitalize(r)
    \/ ta_punctuation(r)
    \/ ta_dedup(r)
    \/ ta_score(r)

\* One request at a time, over all the modelled inputs.
Spec == Init /\ [][Next]_vars

\* NumRequests requests interleaved stage by stage.
SpecConcurrent == InitConcurrent /\ [][Next]_vars


(***************************************************************************)
(* Properties                                                              *)
(***************************************************************************)
\* The request has been answered with a result of the pipeline.
Answered(r) ==
  req[r].pc = "done" /\ req[r].response.status \in { "200", "returned" }

\* The request went through the scorer.
Scored(r) ==
  /\ Answered(r)
  /\ Len(req[r].stages) > 0
  /\ req[r].stages[Len(req[r].stages)] = "score"

\* A reply of a grammar service that cannot be reached.
Unreachable == [ outcome |-> "unreachable", body |-> NoneResult ]

\* C1: for every request that reaches the scorer, with t the number of
\* whitespace-delimited tokens of the input and w the number of returned
\* correction records, the confidence is max(0, 1 - w / max(1, t)): it is 0
\* when w >= max(1, t) and (max(1, t) - w) / max(1, t) otherwise, lies between
\* 0 and 1, and is 1 when the list is empty.  The answer carries it rounded to
\* two decimals and w as wrong_word_count.
C1_Confidence ==
  \A r \in RequestIds :
    Scored(r) =>
      LET q == req[r]
          w == Len(q.response.corrections)
          t == split_len(q.data_text)
          d == IF t < 1 THEN 1 ELSE t
          c == q.confidence
      IN  /\ q.response.wrong_word_count = w
          /\ c.den > 0
          /\ IF w >= d THEN c.num = 0 ELSE c.num * d = c.den * (d - w)
          /\ 0 <= c.num /\ c.num <= c.den
          /\ (w = 0 => c.num = c.den /\ q.response.confidence = 100)
          /\ q.response.confidence \in 0..100
          /\ 2 * (100 * c.num - q.response.confidence * c.den) <= c.den
          /\ 2 * (q.response.confidence * c.den - 100 * c.num) <= c.den

\* A scored request with more correction records than words: the clamp at 0
\* decides its confidence.
C1_Witness ==
  \E r \in RequestIds :
    /\ Scored(r)
    /\ Len(req[r].response.corrections) > split_len(req[r].data_text)
    /\ req[r].response.confidence = 0

\* The records of a list whose key (original and corrected, lowercased) no
\* earlier record of the list has, in the order of the list.
FirstSeen(list) ==
  LET kept == { i \in 1..Len(list) :
                  \A j \in 1..(i - 1) : dedup_key(list[j]) # dedup_key(list[i]) }
      nth(k) == CHOOSE i \in kept : Cardinality({ j \in kept : j <= i }) = k
  IN  [ k \in 1..Cardinality(kept) |-> list[nth(k)] ]

\* C2: the returned correction list has no two records with the same key
\* (original.lower(), corrected.lower()), and is the accumulated list with
\* only the first-seen record of every key kept, in first-seen order.
C2_NoDuplicateKeys ==
  \A r \in RequestIds :
    Answered(r) =>
      LET list == req[r].response.corrections
      IN  /\ \A i, j \in 1..Len(list) :
               i < j => dedup_key(list[i]) # dedup_key(list[j])
          /\ list = FirstSeen(req[r].corrections)

\* What the pipeline of a module returns for a text when the grammar service
\* cannot be reached.
DegradedOn(module, text) ==
  IF module = "simple_text_analysis"
  THEN LET res == correct_text(checker_init, text, Unreachable)
       IN  [ corrected_sentence |-> res.corrected, corrections |-> res.corrections ]
  ELSE LET res == analyze_grammar_and_words(FALSE, text, Unreachable)
       IN  [ corrected_sentence |-> res.corrected_sentence,
             corrections |-> res.corrections ]

Degraded(q) == DegradedOn(q.module, q.text)

\* A record made by the pattern pass, not from a suggestion of the service.
IsRuleBased(c) ==
  IF "type" \in DOMAIN c THEN c.type = "rule_based"
  ELSE c.category \in { "WORD_USAGE", "PRONOUN_USAGE" }

\* C3: whatever the grammar service does short of giving usable suggestions
\* (unreachable, timeout, non-success status, unparsable or empty reply, a
\* reply with a match that lacks offset, length or a replacement value), the
\* request is answered, never failed, with the corrected text and the
\* rule-based records it gets when the service is unavailable.
C3_ServiceFailureTolerated ==
  \A r \in RequestIds :
    (req[r].pc = "done" /\ req[r].service \in { "unavailable", "empty", "malformed" })
      => /\ Answered(r)
         /\ req[r].response.corrected_sentence = Degraded(req[r]).corrected_sentence
         /\ SelectSeq(req[r].response.corrections, IsRuleBased)
              = Degraded(req[r]).corrections

\* Every character of the text is whitespace (the empty text included).
Blank(text) == \A i \in 1..Len(text) : IsSpace(text[i])

\* C4: an empty or whitespace-only text given to the pipeline is returned
\* unchanged, with no correction record, a count of 0 and confidence 1.0 (the
\* value analyze_grammar_and_words returns, and the value the score formula
\* gives to the count correct_text returns); no stage runs and the grammar
\* service is not called.
C4_BlankShortCircuit ==
  \A r \in RequestIds :
    (req[r].pc = "done" /\ req[r].entry = "direct" /\ Blank(req[r].data_text))
      => LET q == req[r]
         IN  /\ q.response.status = "returned"
             /\ q.response.corrected_sentence = q.data_text
             /\ q.response.corrections = << >>
             /\ q.response.wrong_word_count = 0
             /\ IF q.module = "text_analysis"
                THEN q.response.confidence = 100
                ELSE round2(confidence_of(q.response.wrong_word_count,
                                          split_len(q.data_text))) = 100
             /\ q.stages = << >>
             /\ q.api_calls = 0
             /\ q.service = "not_called"

\* A whitespace-only text has gone through the short-circuit of correct_text
\* with the grammar service online.
C4_Witness ==
  \E r \in RequestIds :
    /\ req[r].pc = "done" /\ req[r].entry = "direct"
    /\ req[r].module = "simple_text_analysis" /\ req[r].online
    /\ req[r].data_text = << " ", " " >>
    /\ req[r].response.status = "returned"
    /\ req[r].response.corrected_sentence = << " ", " " >>

\* "I IS HUNGRY", "I Is hungry", "i is hungry" and what the specification expects of
\* them: "I AM HUNGRY", "I Am hungry", "i am hungry", "I am hungry.".
IIsHungryUpper == <<"I"," ","I","S"," ","H","U","N","G","R","Y">>
IIsHungryTitle == <<"I"," ","I","s"," ","h","u","n","g","r","y">>
IIsHungryLower == <<"i"," ","i","s"," ","h","u","n","g","r","y">>
IAmHungryUpper == <<"I"," ","A","M"," ","H","U","N","G","R","Y">>
IAmHungryTitle == <<"I"," ","A","m"," ","h","u","n","g","r","y">>
IAmHungryLower == <<"i"," ","a","m"," ","h","u","n","g","r","y">>
IAmHungrySentence == <<"I"," ","a","m"," ","h","u","n","g","r","y",".">>

\* The pattern pass has just run for the request.
AfterPatterns(r) ==
  /\ Len(req[r].stages) > 0
  /\ req[r].stages[Len(req[r].stages)] = "patterns"

\* The casing the replacement of a matched span is to have: uppercase for an
\* uppercase span, else title case for a title-case span, else lowercase.
MirroredCase(span, replacement) ==
  IF isupper(span) THEN upper(replacement)
  ELSE IF istitle(span) THEN title(replacement)
  ELSE lower(replacement)

\* C5: the replacement the pattern pass inserts mirrors the casing of the
\* matched span (uppercase, else title case, else lowercase, decided on the
\* whole phrase): after the pass "I IS HUNGRY" reads "I AM HUNGRY", "I Is
\* hungry" reads "I Am hungry" and "i is hungry" has a lowercase "i am"; the
\* text holds the mirrored replacement of the one pattern that fired; and the
\* final text for "i is hungry" is "I am hungry.".
C5_CaseMirroring ==
  \A r \in RequestIds :
    LET q == req[r]
        t == strip(q.data_text)
    IN  /\ AfterPatterns(r) =>
             /\ (t = IIsHungryUpper => q.corrected = IAmHungryUpper)
             /\ (t = IIsHungryTitle => q.corrected = IAmHungryTitle)
             /\ (t = IIsHungryLower =>
                    q.corrected \in { IAmHungryLower, capitalize_first(IAmHungryLower) })
             /\ (Len(q.corrections) = 1 =>
                    contains(q.corrected,
                             MirroredCase(q.corrections[1].original,
                                          q.corrections[1].corrected)))
        /\ (Answered(r) /\ q.service = "unavailable" /\ t = IIsHungryLower)
             => q.response.corrected_sentence = IAmHungrySentence

\* s is an initial part of t.
IsPrefix(s, t) == Len(s) <= Len(t) /\ s = SubSeq(t, 1, Len(s))

\* The stages of a request in the order the code runs them.
StageOrder(q) ==
  IF q.module = "simple_text_analysis"
  THEN << "capitalize", "patterns", "external_consult" >>
       \o (IF has_matches(q.api_result) THEN << "external_apply" >> ELSE << >>)
       \o << "punctuation", "contractions" >>
       \o (IF q.entry = "endpoint" THEN << "score" >> ELSE << >>)
  ELSE (IF tool THEN << "external_consult" >> ELSE << >>)
       \o << "patterns", "external_apply", "contractions", "capitalize",
             "punctuation", "dedup", "score" >>

\* C6, as the code has it: the stages of a non-blank request run once each, in
\* a fixed order, never looping back.  simple_text_analysis.py: capitalize,
\* grammar patterns (the entries in declaration order, each on the text as
\* the earlier entries left it), consult the grammar service on the rule-corrected text,
\* apply its suggestions (when the reply has matches), terminal punctuation,
\* contractions, score (no dedup).  text_analysis.py: consult the grammar
\* service on the original text (when the tool is set), grammar patterns,
\* apply its suggestions, contractions, capitalize, terminal punctuation,
\* dedup, score.
C6_StageOrder ==
  \A r \in RequestIds :
    LET q == req[r]
    IN  /\ q.module # "none" => IsPrefix(q.stages, StageOrder(q))
        /\ (Answered(r) /\ ~Blank(q.data_text)) => q.stages = StageOrder(q)
        /\ (AfterPatterns(r) /\ q.module = "simple_text_analysis") =>
             q.corrected = rule_loop(common_errors, 1,
                             capitalize_first(strip(q.text)), << >>).text
        /\ (AfterPatterns(r) /\ q.module = "text_analysis") =>
             q.corrected = common_errors_loop(ta_common_errors, 1,
                             fix_I_name([ text |-> strip(q.text),
                                          corrections |-> << >> ]).text,
                             << >>).text

\* A request through simple_text_analysis.py whose every stage has run, the
\* suggestions of the grammar service included.
C6_Witness ==
  \E r \in RequestIds :
    /\ Answered(r)
    /\ req[r].module = "simple_text_analysis"
    /\ req[r].stages = << "capitalize", "patterns", "external_consult",
                          "external_apply", "punctuation", "contractions", "score" >>

\* C6, as stated: capitalize, grammar patterns, external suggestions (consulted
\* and applied after the pattern pass, only if the service is available),
\* contractions, terminal punctuation, dedup, score.
C6_ClaimedStageOrder ==
  \A r \in RequestIds :
    (Answered(r) /\ ~Blank(req[r].data_text) /\ req[r].entry = "endpoint")
      => LET stages   == req[r].stages
             external == { "external_consult", "external_apply" }
         IN  /\ SelectSeq(stages, LAMBDA s : s \notin external)
                  = << "capitalize", "patterns", "contractions", "punctuation",
                       "dedup", "score" >>
             /\ \A i \in 1..Len(stages) :
                  stages[i] \in external =>
                    /\ \E j \in 1..(i - 1) : stages[j] = "patterns"
                    /\ \E j \in (i + 1)..Len(stages) : stages[j] = "contractions"

\* C7: with the grammar service unavailable, the corrected sentence c returned
\* for a non-blank text is a fixed point of the pipeline: run on c it returns
\* c, and no correction it made the first time is made again.
C7_Idempotent ==
  \A r \in RequestIds :
    (Answered(r) /\ ~Blank(req[r].data_text) /\ req[r].service = "unavailable")
      => LET first == req[r].response
             again == DegradedOn(req[r].module, first.corrected_sentence)
         IN  /\ again.corrected_sentence = first.corrected_sentence
             /\ \A i \in 1..Len(first.corrections), j \in 1..Len(again.corrections) :
                  dedup_key(again.corrections[j]) # dedup_key(first.corrections[i])

\* "he are happy" and "he's happy."
HeAreHappy == <<"h","e"," ","a","r","e"," ","h","a","p","p","y">>
HesHappySentence == <<"h","e","'","s"," ","h","a","p","p","y",".">>

\* The number of terminal marks ('.', '!', '?') a text ends in.
TrailingMarks(s) ==
  LET others == { i \in 1..Len(s) : s[i] \notin { ".", "!", "?" } }
  IN  IF others = {} THEN Len(s)
      ELSE Len(s) - (CHOOSE i \in others : \A j \in others : j <= i)

\* The punctuation stage of the request has run.
Punctuated(q) == \E i \in 1..Len(q.stages) : q.stages[i] = "punctuation"

\* C8, as the code has it: the punctuation stage appends exactly one '.' to a
\* non-empty text that does not end in '.', '!' or '?' and nothing to any
\* other text; no later stage adds or removes a terminal mark; and the
\* returned sentence of a non-blank input is that text, which ends in one of
\* the three marks unless the suggestions of the grammar service had emptied
\* it before the punctuation stage.
C8_TerminalMark ==
  [][ \A r \in RequestIds :
        LET q  == req[r]
            q2 == req'[r]
        IN  /\ (q.pc \in { "fix_sentence_end", "punctuation" } /\ q2.pc # q.pc) =>
                 q2.corrected =
                   IF Len(q.corrected) = 0 \/ endswith_mark(q.corrected)
                   THEN q.corrected ELSE q.corrected \o << "." >>
            /\ (Punctuated(q) /\ q2 # q) =>
                 /\ TrailingMarks(q2.corrected) = TrailingMarks(q.corrected)
                 /\ (Len(q2.corrected) = 0) = (Len(q.corrected) = 0)
            /\ (q.pc # "done" /\ q2.pc = "done" /\ ~Blank(q.data_text)
                  /\ q2.response.status \in { "200", "returned" }) =>
                 /\ Punctuated(q2)
                 /\ q2.response.corrected_sentence = q2.corrected
                 /\ (Len(q2.corrected) > 0 => TrailingMarks(q2.corrected) >= 1)
    ]_vars

\* "he are happy" has been answered with "he's happy.": the period was
\* appended once and the contractions ran after it.
C8_Witness ==
  \E r \in RequestIds :
    /\ Answered(r)
    /\ req[r].module = "simple_text_analysis"
    /\ req[r].data_text = HeAreHappy
    /\ req[r].response.corrected_sentence = HesHappySentence
    /\ TrailingMarks(req[r].response.corrected_sentence) = 1

\* C8, as stated: the returned sentence of every non-blank input ends in '.',
\* '!' or '?'.
C8_AlwaysEndsInMark ==
  \A r \in RequestIds :
    (Answered(r) /\ ~Blank(req[r].data_text))
      => endswith_mark(req[r].response.corrected_sentence)

\* What the endpoint of a module answers to a text processed alone, the
\* grammar service not answering.
AloneAnswer(module, data_text) ==
  LET text == strip(data_text)
  IN  IF module = "simple_text_analysis"
      THEN LET res == correct_text(checker_init, text, Unreachable)
           IN  [ corrected_sentence |-> res.corrected,
                 corrections |-> res.corrections,
                 wrong_word_count |-> res.total_errors,
                 confidence |-> round2(confidence_of(res.total_errors, split_len(text))) ]
      ELSE analyze_grammar_and_words(TRUE, text, Unreachable)

\* The records the pipeline of a module makes for a text processed alone,
\* before any dedup.
AloneRecordsOf(module, data_text) ==
  LET text == strip(data_text)
      list == IF module = "simple_text_analysis"
              THEN correct_text(checker_init, text, Unreachable).corrections
              ELSE ta_corrected(text, << >>).corrections
  IN  { list[i] : i \in 1..Len(list) }

\* Both, for the requests of SpecConcurrent.
AloneTable ==
  [ m \in Modules, t \in ConcurrentTexts |->
      [ answer |-> AloneAnswer(m, t), records |-> AloneRecordsOf(m, t) ] ]

Alone(q) == AloneTable[q.module, q.data_text].answer

AloneRecords(q) == AloneTable[q.module, q.data_text].records

\* C9: under every interleaving of the stages of concurrent requests, each
\* answer (corrected sentence, correction list, count, confidence) is the
\* answer the request gets when processed alone, no correction list ever holds
\* a record made for another request, and the process-wide tables stay as
\* they were built.
C9_Isolation ==
  /\ grammar_checker = checker_init
  /\ tool = TRUE
  /\ \A r \in RequestIds :
       LET q == req[r]
       IN  /\ \A i \in 1..Len(q.corrections) : q.corrections[i] \in AloneRecords(q)
           /\ q.pc = "done" =>
                /\ q.response.status = "200"
                /\ q.response.corrected_sentence = Alone(q).corrected_sentence
                /\ q.response.corrections = Alone(q).corrections
                /\ q.response.wrong_word_count = Alone(q).wrong_word_count
                /\ q.response.confidence = Alone(q).confidence

\* Two requests of the same program with different texts overlap: one is
\* answered while the other is in the middle of its pipeline, each holding a
\* correction record of its own.
C9_Witness ==
  \E r1, r2 \in RequestIds :
    /\ r1 # r2
    /\ req[r1].module = req[r2].module
    /\ req[r1].data_text # req[r2].data_text
    /\ Answered(r1) /\ Len(req[r1].response.corrections) > 0
    /\ req[r2].pc \in { "fix_contractions", "contractions" }
    /\ Len(req[r2].corrections) > 0

\* "i are happy", "I am happy.", "i are" and "I am"
IAreHappy == <<"i"," ","a","r","e"," ","h","a","p","p","y">>
IAmHappySentence == <<"I"," ","a","m"," ","h","a","p","p","y",".">>
IAre == <<"i"," ","a","r","e">>
IAm == <<"I"," ","a","m">>

\* The text the pattern pass of a request starts from.
EnteringPatterns(q) ==
  IF q.module = "simple_text_analysis"
  THEN capitalize_first(strip(q.text)) ELSE strip(q.text)

\* The pattern table of the program that serves a request.
PatternTable(q) ==
  IF q.module = "simple_text_analysis" THEN common_errors ELSE ta_common_errors

\* C10: the pattern pass emits a record exactly when an entry has a
\* whole-word, case-insensitive match; the record's original is the span as
\* found in the text and its corrected is the text actually inserted.  So
\* "i are happy" is answered with "I am happy.", the one record {original
\* "i are", corrected "I am", category GRAMMAR}, wrong_word_count 1,
\* total_words 3 and confidence 0.67.
C10_RuleRecord ==
  \A r \in RequestIds :
    LET q == req[r]
    IN  /\ AfterPatterns(r) =>
             /\ (Len(q.corrections) > 0) =
                  (\E k \in 1..Len(PatternTable(q)) :
                     _contains_word(EnteringPatterns(q), PatternTable(q)[k].wrong))
             /\ Len(q.corrections) = 1 =>
                  /\ contains(EnteringPatterns(q), q.corrections[1].original)
                  /\ contains(q.corrected, q.corrections[1].corrected)
        /\ (Answered(r) /\ q.entry = "endpoint" /\ q.service = "unavailable"
              /\ strip(q.data_text) = IAreHappy) =>
             /\ q.response.corrected_sentence = IAmHappySentence
             /\ Len(q.response.corrections) = 1
             /\ q.response.corrections[1].original = IAre
             /\ q.response.corrections[1].corrected = IAm
             /\ q.response.corrections[1].category = "GRAMMAR"
             /\ q.response.wrong_word_count = 1
             /\ q.total_words = 3
             /\ q.response.confidence = 67

\* The suggestion stage of the request has just run.
AfterSuggestions(r) ==
  /\ Len(req[r].stages) > 0
  /\ req[r].stages[Len(req[r].stages)] = "external_apply"

\* The text and the records the suggestion stage of a request starts from:
\* what the pattern pass left.
EnteringSuggestions(q) ==
  IF q.module = "simple_text_analysis"
  THEN rule_loop(common_errors, 1, capitalize_first(strip(q.text)), << >>)
  ELSE common_errors_loop(ta_common_errors, 1,
         fix_I_name([ text |-> strip(q.text), corrections |-> << >> ]).text,
         fix_I_name([ text |-> strip(q.text), corrections |-> << >> ]).corrections)

\* The suggestions of the grammar service that offer a replacement, in order:
\* the source span of each and its first replacement.
Suggestions(q) ==
  IF q.module = "simple_text_analysis"
  THEN LET offered == SelectSeq(q.api_result.matches,
                                LAMBDA m : Len(m.replacements) > 0)
       IN  [ k \in 1..Len(offered) |->
               [ original  |-> slice(EnteringSuggestions(q).text,
                                     offered[k].offset, offered[k].length),
                 corrected |-> offered[k].replacements[1].value ] ]
  ELSE [ k \in 1..Len(q.grammar_corrections) |->
           [ original  |-> q.grammar_corrections[k].original,
             corrected |-> q.grammar_corrections[k].corrected ] ]

\* The suggestions from the k-th on, taken in order on the current text: one
\* whose span is in the text has its replacement put in place of the span
\* (the leftmost occurrence) and gives one record; one whose span is gone
\* leaves the text alone and gives none.
RECURSIVE SuggestionsTaken(_, _, _)
SuggestionsTaken(st, suggestions, k) ==
  IF k > Len(suggestions) THEN st
  ELSE IF contains(st.text, suggestions[k].original)
       THEN SuggestionsTaken(
              [ text |-> replace_first(st.text, suggestions[k].original,
                                       suggestions[k].corrected),
                records |-> Append(st.records, suggestions[k]) ],
              suggestions, k + 1)
       ELSE SuggestionsTaken(st, suggestions, k + 1)

\* C11: the suggestion stage takes the suggestions of the grammar service in
\* order; a suggestion whose source span is still in the current text has its
\* first replacement inserted verbatim and gives exactly one record, and one
\* whose span is no longer there changes nothing and gives no record.
C11_SuggestionsApplied ==
  \A r \in RequestIds :
    (AfterSuggestions(r) /\ req[r].service = "suggestions") =>
      LET q        == req[r]
          entering == EnteringSuggestions(q)
          taken    == SuggestionsTaken([ text |-> entering.text, records |-> << >> ],
                                       Suggestions(q), 1)
          emitted  == SubSeq(q.corrections, Len(entering.corrections) + 1,
                             Len(q.corrections))
      IN  /\ q.corrected = taken.text
          /\ Len(emitted) = Len(taken.records)
          /\ \A i \in 1..Len(emitted) :
               /\ emitted[i].original = taken.records[i].original
               /\ emitted[i].corrected = taken.records[i].corrected

=============================================================================
